---- MODULE Spec2Model ----
(***************************************************************************)
(* A model of gphotos-sync: GooglePhotosSync (the pickledb index, the      *)
(* existence probes and the download-to-temp-then-rename of                *)
(* download_media) and LocalData (the sqlite catalog, the duplicate        *)
(* resolver and the schema gate).                                          *)
(***************************************************************************)
EXTENDS Integers, Sequences, FiniteSets, TLC

VARIABLES
    \* ---- GooglePhotosSync ----
    args,       \* self.args: [index_only], fixed for one run of the process
    probe,      \* the existence check the run's main loop calls per item
    db,         \* self.db, the pickledb held in memory (auto-dump off)
    disk_db,    \* the pickledb file as last written by store_data
    fs,         \* the files of the target folder: file name -> content
    media,      \* the GooglePhotosMedia the main loop is working on
    pc,         \* where the process is within the per-item code
    retry,      \* attempts of the current download_media started so far
    done,       \* download_media's local `done`
    ret,        \* the last return: <<operation, value>>
    runs,       \* process starts so far
    \* ---- LocalData ----
    store,      \* the sqlite file gphotos.sqlite: Globals.Version, SyncFiles
    previous,   \* the file gphotos.sqlite.previous
    con,        \* whether a LocalData object holds the store open
    res,        \* the last LocalData call: <<operation, arguments, result>>
    globals,    \* the store's Globals row: LastIndexDrive, LastIndexPicasa
    supplied,   \* the scan dates the caller passed most recently
    drive_folders,  \* the store's DriveFolders rows
    \* ---- GooglePhotosSync.get_remote_medias ----
    query_params,   \* the query handed to googleDrive.ListFile
    listing         \* the drive files of the listing not yet iterated

syncVars == <<args, probe, db, disk_db, fs, media, pc, retry, done, ret, runs>>

tableVars == <<globals, supplied, drive_folders>>

dataVars == <<store, previous, con, res, tableVars>>

driveVars == <<query_params, listing>>

vars == <<syncVars, dataVars, driveVars>>

(***************************************************************************)
(* Bounds of the model and constants of the program.                       *)
(***************************************************************************)
MaxRuns == 2            \* process starts explored (one kill and restart)
ChunksTotal == 2        \* chunks next_chunk delivers for one item
MaxDuplicateNo == 2     \* largest DuplicateNo a caller hands to put_file
MaxName == 1            \* largest duplicate number of a name found at start
MaxDate == 3            \* dates are days 1..MaxDate
MaxScanDate == 5        \* scan dates are days 1..MaxScanDate
RetryLimit == 10        \* range(10) in download_media
PAGE_SIZE == 100        \* GooglePhotosSync.PAGE_SIZE
VERSION == 23           \* LocalData.VERSION = 2.3, in tenths
BLOCK_SIZE == 10000     \* LocalData.BLOCK_SIZE

Ids == {"a", "b"}

\* the drive_file titles the remote listing yields: "a" and "b" collide
RemoteTitle(i) == "n"

path == "p"

(***************************************************************************)
(* File names.  media.filename embeds the duplicate number in the title;   *)
(* os.path.join prefixes the folder.                                       *)
(***************************************************************************)
filename(m) == <<m.title, m.duplicate_number>>

join(p, name) == <<p>> \o name

temp_filename == join(path, <<".temp-gphotos", 0>>)

IdKey(i) == <<i>>

NoMedia == [id |-> "", title |-> "", duplicate_number |-> 0,
            description |-> "", checksum |-> ""]

\* the descriptions a listing may carry for an item (the owner edits "a"'s)
Descriptions(i) == IF i = "a" THEN {"d", "e"} ELSE {"d"}

GooglePhotosMedia(i, d) ==
    [id |-> i, title |-> RemoteTitle(i), duplicate_number |-> 0,
     description |-> d, checksum |-> i]

\* pickledb: dcreate(k) then dadd(k, ...) leave k bound to the new dict
Put(f, k, v) == [y \in DOMAIN f \cup {k} |-> IF y = k THEN v ELSE f[y]]

Remove(f, k) == [y \in DOMAIN f \ {k} |-> f[y]]

Empty == <<>>

(***************************************************************************)
(* The main loop takes the next item of get_remote_medias and checks       *)
(* whether it is already present.                                          *)
(***************************************************************************)
NextMedia(i, d) ==
    /\ pc = "idle"
    /\ media' = GooglePhotosMedia(i, d)
    /\ pc' = probe
    /\ retry' = 0
    /\ done' = FALSE
    /\ ret' = <<"none", FALSE>>
    /\ UNCHANGED <<args, probe, db, disk_db, fs, runs>>
    /\ UNCHANGED <<dataVars, driveVars>>

\* is_indexed recursing without the bump
is_indexed_NoBump ==
    /\ pc = "is_indexed"
    /\ LET local_filename == join(path, filename(media)) IN
       IF local_filename \in DOMAIN db
       THEN IF db[local_filename].id = media.id
            THEN /\ ret' = <<"is_indexed", TRUE>>
                 /\ pc' = "idle"
                 /\ UNCHANGED media
            ELSE UNCHANGED <<media, pc, ret>>
       ELSE /\ ret' = <<"is_indexed", FALSE>>
            /\ pc' = "download_media"
            /\ UNCHANGED media
    /\ UNCHANGED <<args, probe, db, disk_db, fs, retry, done, runs>>
    /\ UNCHANGED <<dataVars, driveVars>>

\* one activation of is_indexed
is_indexed ==
    /\ pc = "is_indexed"
    /\ LET local_filename == join(path, filename(media)) IN
       IF local_filename \in DOMAIN db
       THEN IF db[local_filename].id = media.id
            THEN /\ ret' = <<"is_indexed", TRUE>>
                 /\ pc' = "idle"
                 /\ UNCHANGED media
            ELSE /\ media' = [media EXCEPT !.duplicate_number = @ + 1]
                 /\ UNCHANGED <<pc, ret>>
       ELSE /\ ret' = <<"is_indexed", FALSE>>
            /\ pc' = "download_media"
            /\ UNCHANGED media
    /\ UNCHANGED <<args, probe, db, disk_db, fs, retry, done, runs>>
    /\ UNCHANGED <<dataVars, driveVars>>

\* has_local_version trusting any file at the name
has_local_version_FileOnly ==
    /\ pc = "has_local_version"
    /\ LET local_filename == join(path, filename(media)) IN
       IF local_filename \in DOMAIN fs
       THEN /\ ret' = <<"has_local_version", TRUE>>
            /\ pc' = "idle"
            /\ UNCHANGED media
       ELSE /\ ret' = <<"has_local_version", FALSE>>
            /\ pc' = "download_media"
            /\ UNCHANGED media
    /\ UNCHANGED <<args, probe, db, disk_db, fs, retry, done, runs>>
    /\ UNCHANGED <<dataVars, driveVars>>

\* one activation of has_local_version
has_local_version ==
    /\ pc = "has_local_version"
    /\ LET local_filename == join(path, filename(media)) IN
       IF local_filename \in DOMAIN fs
       THEN IF /\ IdKey(media.id) \in DOMAIN db
               /\ db[IdKey(media.id)].filename = local_filename
            THEN /\ ret' = <<"has_local_version", TRUE>>
                 /\ pc' = "idle"
                 /\ UNCHANGED media
            ELSE /\ media' = [media EXCEPT !.duplicate_number = @ + 1]
                 /\ UNCHANGED <<pc, ret>>
       ELSE /\ ret' = <<"has_local_version", FALSE>>
            /\ pc' = "download_media"
            /\ UNCHANGED media
    /\ UNCHANGED <<args, probe, db, disk_db, fs, retry, done, runs>>
    /\ UNCHANGED <<dataVars, driveVars>>

(***************************************************************************)
(* download_media.                                                         *)
(***************************************************************************)
target_filename == join(path, filename(media))

\* download_media entering the retry loop whatever index_only says
DownloadEnter_AlwaysTransfer ==
    /\ pc = "download_media"
    /\ pc' = "for"
    /\ UNCHANGED <<args, probe, db, disk_db, fs, media, retry, done, ret, runs>>
    /\ UNCHANGED <<dataVars, driveVars>>

\* entry: the folder is made, the names are computed, index_only is tested
DownloadEnter ==
    /\ pc = "download_media"
    /\ pc' = IF args.index_only THEN "index" ELSE "for"
    /\ UNCHANGED <<args, probe, db, disk_db, fs, media, retry, done, ret, runs>>
    /\ UNCHANGED <<dataVars, driveVars>>

\* for retry in range(10): io.open(temp_filename, 'bw') truncates
OpenTemp ==
    /\ pc = "for"
    /\ retry < RetryLimit
    /\ retry' = retry + 1
    /\ fs' = Put(fs, temp_filename, <<>>)
    /\ done' = FALSE
    /\ pc' = "next_chunk"
    /\ UNCHANGED <<args, probe, db, disk_db, media, ret, runs>>
    /\ UNCHANGED <<dataVars, driveVars>>

\* io.open raises: except Exception ... continue
OpenRaises ==
    /\ pc = "for"
    /\ retry < RetryLimit
    /\ retry' = retry + 1
    /\ UNCHANGED <<args, probe, db, disk_db, fs, media, pc, done, ret, runs>>
    /\ UNCHANGED <<dataVars, driveVars>>

\* next_chunk appends one chunk to the open file and reports done at the last
NextChunk ==
    /\ pc = "next_chunk"
    /\ fs' = [fs EXCEPT ![temp_filename] = Append(@, media.id)]
    /\ done' = (Len(fs[temp_filename]) + 1 = ChunksTotal)
    /\ pc' = IF done' THEN "rename" ELSE "next_chunk"
    /\ UNCHANGED <<args, probe, db, disk_db, media, retry, ret, runs>>
    /\ UNCHANGED <<dataVars, driveVars>>

\* the except clause without its continue: control falls through to the rename
ChunkRaises_NoContinue ==
    /\ pc = "next_chunk"
    /\ pc' = "rename"
    /\ UNCHANGED <<args, probe, db, disk_db, fs, media, retry, done, ret, runs>>
    /\ UNCHANGED <<dataVars, driveVars>>

\* next_chunk raises: except Exception ... continue
ChunkRaises ==
    /\ pc = "next_chunk"
    /\ pc' = "for"
    /\ UNCHANGED <<args, probe, db, disk_db, fs, media, retry, done, ret, runs>>
    /\ UNCHANGED <<dataVars, driveVars>>

\* the rename without its break: the loop goes on to the next attempt
Rename_NoBreak ==
    /\ pc = "rename"
    /\ fs' = Put(Remove(fs, temp_filename), target_filename, fs[temp_filename])
    /\ pc' = "for"
    /\ UNCHANGED <<args, probe, db, disk_db, media, retry, done, ret, runs>>
    /\ UNCHANGED <<dataVars, driveVars>>

\* os.rename(temp_filename, target_filename); break
Rename ==
    /\ pc = "rename"
    /\ fs' = Put(Remove(fs, temp_filename), target_filename, fs[temp_filename])
    /\ pc' = "index"
    /\ UNCHANGED <<args, probe, db, disk_db, media, retry, done, ret, runs>>
    /\ UNCHANGED <<dataVars, driveVars>>

\* the loop runs out of attempts and falls through to the index write
LoopExhausted ==
    /\ pc = "for"
    /\ retry = RetryLimit
    /\ pc' = "index"
    /\ UNCHANGED <<args, probe, db, disk_db, fs, media, retry, done, ret, runs>>
    /\ UNCHANGED <<dataVars, driveVars>>

\* the forward record and the reverse lookup are written, the name returned
WriteIndex ==
    /\ pc = "index"
    /\ db' = Put(Put(db, IdKey(media.id),
                     [filename |-> target_filename,
                      description |-> media.description,
                      checksum |-> media.checksum]),
                 target_filename, [id |-> media.id])
    /\ ret' = <<"download_media", target_filename>>
    /\ pc' = "idle"
    /\ UNCHANGED <<args, probe, disk_db, fs, media, retry, done, runs>>
    /\ UNCHANGED <<dataVars, driveVars>>

\* store_data: self.db.dump()
store_data ==
    /\ pc = "idle"
    /\ disk_db # db
    /\ disk_db' = db
    /\ UNCHANGED <<args, probe, db, fs, media, pc, retry, done, ret, runs>>
    /\ UNCHANGED <<dataVars, driveVars>>

\* the process is killed at any point and started again: __init__ loads the
\* pickledb file; the files on disk stay as they are
KillAndRestart ==
    /\ runs < MaxRuns
    /\ runs' = runs + 1
    /\ args' \in [index_only : BOOLEAN]
    /\ probe' \in {"is_indexed", "has_local_version"}
    /\ db' = disk_db
    /\ media' = NoMedia
    /\ pc' = "idle"
    /\ retry' = 0
    /\ done' = FALSE
    /\ ret' = <<"none", FALSE>>
    /\ UNCHANGED <<disk_db, fs>>
    /\ UNCHANGED <<dataVars, driveVars>>

(***************************************************************************)
(* Properties of download_media.                                           *)
(***************************************************************************)
FinalNames == DOMAIN fs \ {temp_filename}

Returned == pc = "idle" /\ ret[1] = "download_media"

AllAttemptsFailed == ~args.index_only /\ retry = RetryLimit /\ ~done

\* C1: in non-index-only mode, when download_media has returned, an index
\* record of the item implies a file under the recorded final name, and a
\* call whose transfers all failed leaves no index record of the item.
C1_IndexOnlyAfterRename ==
    (Returned /\ ~args.index_only) =>
        /\ IdKey(media.id) \in DOMAIN db =>
               db[IdKey(media.id)].filename \in DOMAIN fs
        /\ ~done => IdKey(media.id) \notin DOMAIN db

\* C2: every file under a final name holds one complete transfer of one
\* item; partially transferred bytes are only ever in the temporary file.
C2_NoPartialFinalFile ==
    \A f \in FinalNames :
        /\ Len(fs[f]) = ChunksTotal
        /\ \E i \in Ids : \A k \in 1..Len(fs[f]) : fs[f][k] = i

\* a restarted process finds the partial temporary file of a killed transfer
\* beside a final file
C2_Witness ==
    /\ runs > 1
    /\ FinalNames # {}
    /\ temp_filename \in DOMAIN fs
    /\ Len(fs[temp_filename]) \in 1..(ChunksTotal - 1)

\* C3: across kills and restarts no item is downloaded a second time (no
\* rename happens for an item whose content is already under a final name)
\* and a materialized item keeps its duplicate number and filename (no item
\* has its content under two final names).
C3_IdempotentResume ==
    /\ [][(pc = "rename" /\ pc' = "index") =>
             \A f \in FinalNames : fs[f][1] # media.id]_vars
    /\ [](\A f, g \in FinalNames : fs[f][1] = fs[g][1] => f = g)

\* C4: when every attempt of a call has failed, the call does not return
\* the target filename: it ends in the transfer-failed error.
C4_TransferFailedSurfaced ==
    (pc = "idle" /\ ret[1] \in {"download_media", "TransferFailedError"}
       /\ AllAttemptsFailed) => ret[1] = "TransferFailedError"

\* C5: at most 10 attempts per call; an attempt that writes starts from an
\* empty temporary file; once an attempt has completed no further attempt
\* starts, and the rename happens once, from the completed attempt only.
C5_BoundedRetries ==
    /\ [](retry <= RetryLimit)
    /\ [][(pc = "for" /\ pc' = "next_chunk") => fs'[temp_filename] = <<>>]_vars
    /\ [][done => retry' <= retry]_vars
    /\ [][(pc = "rename" \/ pc = "index") => pc' \in {pc, "index", "idle"}]_vars
    /\ [][(\E f \in FinalNames : f \notin DOMAIN fs' \/ fs'[f] # fs[f])
            \/ (\E f \in DOMAIN fs' \ {temp_filename} : f \notin DOMAIN fs)
          => /\ pc = "rename" /\ done /\ pc' = "index"
             /\ fs'[target_filename] = fs[temp_filename]]_vars

\* the tenth attempt is the one that completes, after nine failures
C5_Witness == pc = "index" /\ done /\ retry = RetryLimit

\* C17: has_local_version returns True only if a file exists at the finally
\* computed path and the forward record of media.id names that path;
\* is_indexed returns True only if the reverse entry of the finally computed
\* path maps to media.id; for a remote id with no index entry neither
\* returns True, whatever files exist.
C17_PresentOnlyOnIndexEvidence ==
    /\ ret = <<"has_local_version", TRUE>> =>
           /\ target_filename \in DOMAIN fs
           /\ IdKey(media.id) \in DOMAIN db
           /\ db[IdKey(media.id)].filename = target_filename
    /\ ret = <<"is_indexed", TRUE>> =>
           /\ target_filename \in DOMAIN db
           /\ db[target_filename].id = media.id
    /\ (/\ IdKey(media.id) \notin DOMAIN db
        /\ \A f \in DOMAIN db \ {IdKey(i) : i \in Ids} : db[f].id # media.id)
       => ret \notin {<<"has_local_version", TRUE>>, <<"is_indexed", TRUE>>}

\* has_local_version returned True at a bumped name while a file of the
\* unbumped name exists
C17_Witness ==
    /\ ret = <<"has_local_version", TRUE>>
    /\ media.duplicate_number > 0
    /\ join(path, <<media.title, 0>>) \in DOMAIN fs

\* C18: in index-only mode download_media makes no transfer attempt, creates,
\* truncates or renames no file, and still writes the forward record and the
\* reverse entry of the item and returns the target filename.
C18_IndexOnlyTouchesNoFile ==
    [][(/\ args.index_only
        /\ (pc = "download_media" \/ pc = "index")
        /\ runs' = runs)
       => /\ fs' = fs
          /\ retry' = retry
          /\ \/ pc' = "index" /\ db' = db
             \/ /\ pc' = "idle"
                /\ ret' = <<"download_media", target_filename>>
                /\ IdKey(media.id) \in DOMAIN db'
                /\ db'[IdKey(media.id)].filename = target_filename
                /\ target_filename \in DOMAIN db'
                /\ db'[target_filename].id = media.id]_vars

\* an index-only download_media has returned: both entries are there and
\* there is no file of that name, nor a temporary file
C18_Witness ==
    /\ args.index_only /\ Returned /\ retry = 0
    /\ db[IdKey(media.id)].filename = target_filename
    /\ db[target_filename].id = media.id
    /\ target_filename \notin DOMAIN fs
    /\ temp_filename \notin DOMAIN fs

\* C20: when has_local_version returns False the name left in media has no
\* file, when is_indexed returns False it has no reverse entry, and the
\* download_media that follows never renames over a file, nor overwrites a
\* reverse entry, of a different remote id.
C20_DownloadAfterFalseOverwritesNothing ==
    /\ []((pc = "download_media" /\ ret = <<"has_local_version", FALSE>>)
              => target_filename \notin DOMAIN fs)
    /\ []((pc = "download_media" /\ ret = <<"is_indexed", FALSE>>)
              => target_filename \notin DOMAIN db)
    /\ [][(pc = "rename" /\ pc' = "index" /\ target_filename \in DOMAIN fs)
            => fs[target_filename][1] = media.id]_vars
    /\ [][(pc = "index" /\ pc' = "idle" /\ target_filename \in DOMAIN db)
            => db[target_filename].id = media.id]_vars

\* C12: for every remote id whose forward record names file f, the reverse
\* entry of f exists and maps back to that remote id.
C12_ForwardReverseConsistent ==
    \A i \in Ids : IdKey(i) \in DOMAIN db =>
        /\ db[IdKey(i)].filename \in DOMAIN db
        /\ db[db[IdKey(i)].filename].id = i

(***************************************************************************)
(* LocalData: the sqlite store.                                            *)
(***************************************************************************)
RemoteIds == {"a", "b", "c"}

Paths == {"p"}

FileNames == {"n", "m"}

Versions == {VERSION - 1, VERSION, VERSION + 1}

\* the columns of SyncRow the resolver and put_file read and write
SyncRow == [RemoteId : RemoteIds, Path : Paths, OrigFileName : FileNames,
            DuplicateNo : 0..MaxDuplicateNo]

NoStore == [exists |-> FALSE, Version |-> 0, SyncFiles |-> <<>>]

\* what the script of clean_db leaves: empty tables, Globals at VERSION
clean_db == [exists |-> TRUE, Version |-> VERSION, SyncFiles |-> <<>>]

\* a store left by an earlier run of this or another release of the tool
OldRow == [RemoteId |-> "a", Path |-> "p", OrigFileName |-> "n",
           DuplicateNo |-> 0]

Rows(s) == {s.SyncFiles[k] : k \in 1..Len(s.SyncFiles)}

\* check_schema_version on the store s the connection sees
check_schema_version_NoNewerTest(s, flush_index) ==
    IF s.Version # VERSION
    THEN /\ previous' = s
         /\ store' = clean_db
         /\ con' = "open"
         /\ res' = <<"__init__", flush_index, "ok">>
    ELSE /\ store' = s
         /\ con' = "open"
         /\ res' = <<"__init__", flush_index, "ok">>
         /\ UNCHANGED previous

\* the out-of-date branch without its os.rename
check_schema_version_NoRename(s, flush_index) ==
    IF s.Version > VERSION
    THEN /\ store' = s
         /\ con' = "closed"
         /\ res' = <<"__init__", flush_index, "ValueError">>
         /\ UNCHANGED previous
    ELSE IF s.Version < VERSION
    THEN /\ store' = clean_db
         /\ con' = "open"
         /\ res' = <<"__init__", flush_index, "ok">>
         /\ UNCHANGED previous
    ELSE /\ store' = s
         /\ con' = "open"
         /\ res' = <<"__init__", flush_index, "ok">>
         /\ UNCHANGED previous

check_schema_version(s, flush_index) ==
    IF s.Version > VERSION
    THEN /\ store' = s
         /\ con' = "closed"
         /\ res' = <<"__init__", flush_index, "ValueError">>
         /\ UNCHANGED previous
    ELSE IF s.Version < VERSION
    THEN /\ previous' = s
         /\ store' = clean_db
         /\ con' = "open"
         /\ res' = <<"__init__", flush_index, "ok">>
    ELSE /\ store' = s
         /\ con' = "open"
         /\ res' = <<"__init__", flush_index, "ok">>
         /\ UNCHANGED previous

\* LocalData(root_folder, flush_index)
LocalDataInit(flush_index) ==
    /\ con = "closed"
    /\ LET clean == ~store.exists \/ flush_index
       IN  check_schema_version(IF clean THEN clean_db ELSE store, flush_index)
    /\ UNCHANGED <<syncVars, driveVars, tableVars>>

\* __exit__: store() and close
Exit ==
    /\ con = "open"
    /\ con' = "closed"
    /\ res' = <<"__exit__", <<>>, 0>>
    /\ UNCHANGED <<store, previous>>
    /\ UNCHANGED <<syncVars, driveVars, tableVars>>

\* SELECT ... FROM SyncFiles WHERE RemoteId = ? yields a row
RemoteIdPresent(rows, id) == \E r \in rows : r.RemoteId = id

\* the schema's unique index on SyncFiles.RemoteId rejects the INSERT
UniqueIndexViolated(rows, row) == RemoteIdPresent(rows, row.RemoteId)

\* INSERT OR REPLACE in place of INSERT
put_file_InsertOrReplace(row) ==
    /\ con = "open"
    /\ store' = [store EXCEPT !.SyncFiles =
                    Append(SelectSeq(@, LAMBDA r : r.RemoteId # row.RemoteId),
                           row)]
    /\ res' = <<"put_file", row, "ok">>
    /\ UNCHANGED <<previous, con>>
    /\ UNCHANGED <<syncVars, driveVars, tableVars>>

put_file(row) ==
    /\ con = "open"
    /\ IF UniqueIndexViolated(Rows(store), row)
       THEN /\ res' = <<"put_file", row, "IntegrityError">>
            /\ UNCHANGED store
       ELSE /\ store' = [store EXCEPT !.SyncFiles = Append(@, row)]
            /\ res' = <<"put_file", row, "ok">>
    /\ UNCHANGED <<previous, con>>
    /\ UNCHANGED <<syncVars, driveVars, tableVars>>

Max(S) == CHOOSE x \in S : \A y \in S : y <= x

\* SELECT MAX(DuplicateNo) ... WHERE Path = ? AND OrigFileName = ?
Group(rows, p, name) == {r \in rows : r.Path = p /\ r.OrigFileName = name}

\* the resolver without its first query
duplicate_no_SkipLookup(rows, file_id, p, name) ==
    IF Group(rows, p, name) # {}
    THEN Max({r.DuplicateNo : r \in Group(rows, p, name)}) + 1
    ELSE 0

\* the resolver returning the maximum itself
duplicate_no_NoIncrement(rows, file_id, p, name) ==
    IF RemoteIdPresent(rows, file_id)
    THEN (CHOOSE r \in rows : r.RemoteId = file_id).DuplicateNo
    ELSE IF Group(rows, p, name) # {}
    THEN Max({r.DuplicateNo : r \in Group(rows, p, name)})
    ELSE 0

duplicate_no(rows, file_id, p, name) ==
    IF RemoteIdPresent(rows, file_id)
    THEN (CHOOSE r \in rows : r.RemoteId = file_id).DuplicateNo
    ELSE IF Group(rows, p, name) # {}
    THEN Max({r.DuplicateNo : r \in Group(rows, p, name)}) + 1
    ELSE 0

\* the resolver inserting the unseen item under the ordinal it returns
file_duplicate_no_Reserving(file_id, p, name) ==
    /\ con = "open"
    /\ res' = <<"file_duplicate_no", <<file_id, p, name>>,
                duplicate_no(Rows(store), file_id, p, name)>>
    /\ store' =
           IF RemoteIdPresent(Rows(store), file_id)
           THEN store
           ELSE [store EXCEPT !.SyncFiles =
                    Append(@, [RemoteId |-> file_id, Path |-> p,
                               OrigFileName |-> name,
                               DuplicateNo |-> res'[3]])]
    /\ UNCHANGED <<previous, con>>
    /\ UNCHANGED <<syncVars, driveVars, tableVars>>

file_duplicate_no(file_id, p, name) ==
    /\ con = "open"
    /\ res' = <<"file_duplicate_no", <<file_id, p, name>>,
                duplicate_no(Rows(store), file_id, p, name)>>
    /\ UNCHANGED <<store, previous, con>>
    /\ UNCHANGED <<syncVars, driveVars, tableVars>>

\* the caller's step: put_file of the unseen item just resolved, under the
\* ordinal file_duplicate_no returned
PutResolved ==
    /\ res[1] = "file_duplicate_no"
    /\ ~RemoteIdPresent(Rows(store), res[2][1])
    /\ put_file([RemoteId |-> res[2][1], Path |-> res[2][2],
                 OrigFileName |-> res[2][3], DuplicateNo |-> res[3]])

(***************************************************************************)
(* Properties of the catalog, the resolver and the schema gate.            *)
(***************************************************************************)
InGroup(r, p, name) == r.Path = p /\ r.OrigFileName = name

\* C6: for a remote id that has a SyncRecord, file_duplicate_no returns the
\* record's stored DuplicateNo, whatever path and name it is called with and
\* whatever other records the groups hold by then.
C6_StoredDuplicateNo ==
    res[1] = "file_duplicate_no" =>
        \A r \in Rows(store) : r.RemoteId = res[2][1] => res[3] = r.DuplicateNo

\* the id was resolved under another name than its record's, after a later
\* record joined the record's group, and the group rule would answer otherwise
C6_Witness ==
    /\ res[1] = "file_duplicate_no"
    /\ \E k, j \in 1..Len(store.SyncFiles) :
          /\ k < j
          /\ store.SyncFiles[k].RemoteId = res[2][1]
          /\ store.SyncFiles[k].OrigFileName # res[2][3]
          /\ InGroup(store.SyncFiles[j], store.SyncFiles[k].Path,
                     store.SyncFiles[k].OrigFileName)
    /\ res[3] # duplicate_no_SkipLookup(Rows(store), res[2][1], res[2][2],
                                        res[2][3])

\* C7: when every insert is a put_file of the ordinal file_duplicate_no just
\* returned, the k-th record inserted into a (Path, OrigFileName) group has
\* DuplicateNo k - 1: the group's ordinals are 0..N-1 in first-seen order
\* and no two records of a group share one.
C7_GapFreeNumbering ==
    \A p \in Paths, name \in FileNames :
        LET group == SelectSeq(store.SyncFiles,
                               LAMBDA r : InGroup(r, p, name))
        IN  \A k \in 1..Len(group) : group[k].DuplicateNo = k - 1

\* three distinct remote ids have been inserted into one group
C7_Witness ==
    /\ con = "open"
    /\ \E p \in Paths, name \in FileNames :
          Cardinality(Group(Rows(store), p, name)) = 3

\* C8: at most one SyncRecord exists per RemoteId, and a put_file of a
\* RemoteId that is present fails with the duplicate-key error and leaves
\* the catalog as it was.
C8_DuplicateKey ==
    /\ [](\A j, k \in 1..Len(store.SyncFiles) :
             store.SyncFiles[j].RemoteId = store.SyncFiles[k].RemoteId => j = k)
    /\ [][(res'[1] = "put_file" /\ con = "open"
             /\ RemoteIdPresent(Rows(store), res'[2].RemoteId))
          => (res'[3] = "IntegrityError" /\ store' = store)]_vars

\* a put_file of a present RemoteId under another ordinal has been refused
C8_Witness ==
    /\ res[1] = "put_file"
    /\ res[3] = "IntegrityError"
    /\ \E r \in Rows(store) :
          r.RemoteId = res[2].RemoteId /\ r.DuplicateNo # res[2].DuplicateNo

\* C9: no step of the running process changes or removes an index record
\* that exists: neither a forward record of the pickledb nor a row of
\* SyncFiles of the open store.
C9_InsertOnly ==
    /\ [][runs' = runs =>
            \A i \in Ids : IdKey(i) \in DOMAIN db =>
                /\ IdKey(i) \in DOMAIN db'
                /\ db'[IdKey(i)] = db[IdKey(i)]]_vars
    /\ [][(con = "open" /\ con' = "open") =>
            \A k \in 1..Len(store.SyncFiles) :
                /\ k <= Len(store'.SyncFiles)
                /\ store'.SyncFiles[k] = store.SyncFiles[k]]_vars

\* C10 as stated: every open of an existing store whose Version is greater
\* than VERSION fails with the error and leaves the store and the
\* .previous file as they were.
C10_NewerStoreRefusedOnEveryOpen ==
    [][(res'[1] = "__init__" /\ con = "closed"
          /\ store.exists /\ store.Version > VERSION)
       => (res'[3] = "ValueError" /\ store' = store /\ previous' = previous
           /\ con' = "closed")]_vars

\* C10 amended: an open without flush_index of an existing store whose
\* Version is greater than VERSION fails with the error and leaves the
\* store and the .previous file as they were.
C10_NewerStoreRefused ==
    [][(res'[1] = "__init__" /\ con = "closed" /\ ~res'[2]
          /\ store.exists /\ store.Version > VERSION)
       => (res'[3] = "ValueError" /\ store' = store /\ previous' = previous
           /\ con' = "closed")]_vars

\* the open of a newer store that holds a record has failed
C10_Witness ==
    /\ res = <<"__init__", FALSE, "ValueError">>
    /\ store.exists
    /\ store.Version > VERSION
    /\ store.SyncFiles # <<>>

\* C11 as stated: every open of an existing store whose Version is less
\* than VERSION succeeds, keeps the prior store under the .previous name and
\* leaves an empty schema at VERSION; an open of a store at VERSION changes
\* nothing.
C11_OlderStoreSetAsideOnEveryOpen ==
    /\ [][(res'[1] = "__init__" /\ con = "closed"
             /\ store.exists /\ store.Version < VERSION)
          => /\ res'[3] = "ok" /\ con' = "open"
             /\ previous' = store
             /\ store'.exists /\ store'.Version = VERSION
             /\ store'.SyncFiles = <<>>]_vars
    /\ [][(res'[1] = "__init__" /\ con = "closed" /\ ~res'[2]
             /\ store.exists /\ store.Version = VERSION)
          => /\ res'[3] = "ok" /\ con' = "open"
             /\ store' = store /\ previous' = previous]_vars

\* C11 amended: an open without flush_index of an existing store whose
\* Version is less than VERSION succeeds, keeps the prior store under the
\* .previous name and leaves an empty schema at VERSION; an open without
\* flush_index of a store at VERSION changes nothing.
C11_OlderStoreSetAside ==
    /\ [][(res'[1] = "__init__" /\ con = "closed" /\ ~res'[2]
             /\ store.exists /\ store.Version < VERSION)
          => /\ res'[3] = "ok" /\ con' = "open"
             /\ previous' = store
             /\ store'.exists /\ store'.Version = VERSION
             /\ store'.SyncFiles = <<>>]_vars
    /\ [][(res'[1] = "__init__" /\ con = "closed" /\ ~res'[2]
             /\ store.exists /\ store.Version = VERSION)
          => /\ res'[3] = "ok" /\ con' = "open"
             /\ store' = store /\ previous' = previous]_vars

\* an older store that held a record has been set aside, and the fresh store
\* has since been closed and opened again
C11_Witness ==
    /\ res = <<"__init__", FALSE, "ok">>
    /\ previous.exists
    /\ previous.Version < VERSION
    /\ previous.SyncFiles # <<>>
    /\ store.Version = VERSION
    /\ store.SyncFiles # <<>>

\* C21: file_duplicate_no changes nothing in the store; a call repeated with
\* the same arguments returns the same ordinal; two unseen remote ids of the
\* same group resolved one after the other, with no put_file between,
\* receive the same ordinal.
C21_ResolverIsPureQuery ==
    /\ [][res'[1] = "file_duplicate_no" =>
            /\ store' = store
            /\ previous' = previous
            /\ con' = con]_vars
    /\ [][(/\ res[1] = "file_duplicate_no"
           /\ res'[1] = "file_duplicate_no"
           /\ res'[2] = res[2])
          => res'[3] = res[3]]_vars
    /\ [][(/\ res[1] = "file_duplicate_no"
           /\ res'[1] = "file_duplicate_no"
           /\ res'[2][1] # res[2][1]
           /\ res'[2][2] = res[2][2]
           /\ res'[2][3] = res[2][3]
           /\ ~RemoteIdPresent(Rows(store), res[2][1])
           /\ ~RemoteIdPresent(Rows(store), res'[2][1]))
          => res'[3] = res[3]]_vars

\* an unseen remote id was resolved to a bumped ordinal in a group that
\* holds a record, another remote id of the model is unseen as well, and
\* the store holds what it held
C21_Witness ==
    /\ res[1] = "file_duplicate_no"
    /\ res[3] > 0
    /\ ~RemoteIdPresent(Rows(store), res[2][1])
    /\ \E r \in Rows(store) : InGroup(r, res[2][2], res[2][3])
    /\ \E i \in RemoteIds \ {res[2][1]} : ~RemoteIdPresent(Rows(store), i)

(***************************************************************************)
(* LocalData.get_files_by_search.                                          *)
(***************************************************************************)
Dates == 1..MaxDate

\* None, as a date argument
NoDate == 0

\* MediaType as the text LIKE compares
MediaTypes == {"0", "1"}

\* the columns of SyncRow the search reads; item b is of one media type
SearchRow ==
    {r \in [RemoteId : {"a", "b"}, Path : Paths, OrigFileName : {"n"},
            DuplicateNo : {0}, MediaType : MediaTypes,
            ModifyDate : Dates, CreateDate : Dates] :
        r.RemoteId = "b" => r.MediaType = "1"}

\* column LIKE ? for the patterns the callers pass: '%' or a literal
Like(value, pattern) == pattern = "%" \/ value = pattern

\* the WHERE clause without the CreateDate alternative
search_where_NoCreateDate(r, drive_id, media_type, start_date, end_date) ==
    /\ Like(r.RemoteId, drive_id)
    /\ Like(r.MediaType, media_type)
    /\ start_date # NoDate => r.ModifyDate >= start_date
    /\ end_date # NoDate => r.ModifyDate <= end_date

\* the WHERE clause get_files_by_search builds
search_where(r, drive_id, media_type, start_date, end_date) ==
    /\ Like(r.RemoteId, drive_id)
    /\ Like(r.MediaType, media_type)
    /\ start_date # NoDate =>
           (r.ModifyDate >= start_date \/ r.CreateDate >= start_date)
    /\ end_date # NoDate => r.ModifyDate <= end_date

\* while True: fetchmany(BLOCK_SIZE) ... yield each record
RECURSIVE FetchAll(_)
FetchAll(records) ==
    IF records = <<>>
    THEN <<>>
    ELSE LET n == IF Len(records) < BLOCK_SIZE THEN Len(records)
                  ELSE BLOCK_SIZE
         IN  SubSeq(records, 1, n) \o FetchAll(SubSeq(records, n + 1,
                                                      Len(records)))

get_files_by_search(drive_id, media_type, start_date, end_date) ==
    /\ con = "open"
    /\ res' = <<"get_files_by_search",
                <<drive_id, media_type, start_date, end_date>>,
                FetchAll(SelectSeq(store.SyncFiles,
                    LAMBDA r : search_where(r, drive_id, media_type,
                                            start_date, end_date)))>>
    /\ UNCHANGED <<store, previous, con>>
    /\ UNCHANGED <<syncVars, driveVars, tableVars>>

\* C13: with wildcard id and media type, get_files_by_search returns, each
\* exactly once, the records with (no start_date, or ModifyDate >= start_date,
\* or CreateDate >= start_date) and (no end_date, or ModifyDate <= end_date),
\* and nothing else.
C13_SearchDateWindow ==
    (res[1] = "get_files_by_search" /\ res[2][1] = "%" /\ res[2][2] = "%") =>
        LET start_date == res[2][3]
            end_date == res[2][4]
            Qualifies(r) ==
                /\ \/ start_date = NoDate
                   \/ r.ModifyDate >= start_date
                   \/ r.CreateDate >= start_date
                /\ \/ end_date = NoDate
                   \/ r.ModifyDate <= end_date
            Times(r) == Cardinality({k \in 1..Len(res[3]) : res[3][k] = r})
        IN  /\ \A r \in Rows(store) :
                   Times(r) = IF Qualifies(r) THEN 1 ELSE 0
            /\ \A k \in 1..Len(res[3]) : res[3][k] \in Rows(store)

\* with both dates given, a record qualifies by its CreateDate alone and
\* another record is left out
C13_Witness ==
    /\ res[1] = "get_files_by_search" /\ res[2][1] = "%" /\ res[2][2] = "%"
    /\ res[2][3] # NoDate /\ res[2][4] # NoDate
    /\ \E k \in 1..Len(res[3]) :
          res[3][k].ModifyDate < res[2][3] /\ res[3][k].CreateDate >= res[2][3]
    /\ \E r \in Rows(store) : \A k \in 1..Len(res[3]) : res[3][k] # r

(***************************************************************************)
(* GooglePhotosSync.get_remote_medias and add_date_filter.  A query string *)
(* is the sequence of its clauses, each a format with the value it was     *)
(* given; += appends a clause.                                             *)
(***************************************************************************)
\* no query built yet
NoQuery == [q |-> <<>>, maxResults |-> 0, orderBy |-> ""]

\* MEDIA_QUERY % folder_id
MEDIA_QUERY(folder_id) ==
    <<[text |-> "\"%s\" in parents and trashed=false ", id |-> folder_id,
       date |-> NoDate]>>

\* AFTER_QUERY % date
AFTER_QUERY(date) ==
    [text |-> " and modifiedDate >= '%sT00:00:00'", id |-> "", date |-> date]

\* BEFORE_QUERY % date
BEFORE_QUERY(date) ==
    [text |-> " and modifiedDate <= '%sT00:00:00'", id |-> "", date |-> date]

add_date_filter(q) ==
    IF args.start_date # NoDate
    THEN Append(q, AFTER_QUERY(args.start_date))
    ELSE IF args.end_date # NoDate
         THEN Append(q, BEFORE_QUERY(args.end_date))
         ELSE q

\* the drive files of the Google Photos folder, ordered by title; a mimeType
\* is <<type, subtype>>
DriveFolder ==
    <<[id |-> "a", description |-> "d", mimeType |-> <<"image", "jpeg">>],
      [id |-> "b", description |-> "d", mimeType |-> <<"video", "mp4">>]>>

\* what googleDrive.ListFile may deliver for a query: the pages, flattened;
\* which files the server selects is the server's choice
Listings ==
    {<<>>, <<DriveFolder[1]>>, <<DriveFolder[2]>>, DriveFolder}

\* get_remote_medias up to the first iteration of the listing
get_remote_medias(folder_id) ==
    /\ pc = "idle"
    /\ query_params' = [q |-> add_date_filter(MEDIA_QUERY(folder_id)),
                        maxResults |-> PAGE_SIZE, orderBy |-> "title"]
    /\ listing' \in Listings
    /\ pc' = "ListFile"
    /\ UNCHANGED <<args, probe, db, disk_db, fs, media, retry, done, ret, runs>>
    /\ UNCHANGED dataVars

\* one iteration: a video is skipped unless include_video, else it is yielded
NextDriveFile ==
    /\ pc = "ListFile"
    /\ listing # <<>>
    /\ LET drive_file == Head(listing)
       IN  IF ~args.include_video /\ drive_file.mimeType[1] = "video"
           THEN UNCHANGED ret
           ELSE ret' = <<"get_remote_medias",
                         GooglePhotosMedia(drive_file.id,
                                           drive_file.description)>>
    /\ listing' = Tail(listing)
    /\ UNCHANGED <<args, probe, db, disk_db, fs, media, pc, retry, done, runs>>
    /\ UNCHANGED query_params
    /\ UNCHANGED dataVars

\* the listing is exhausted: the generator ends
EndOfListing ==
    /\ pc = "ListFile"
    /\ listing = <<>>
    /\ pc' = "idle"
    /\ ret' = <<"get_remote_medias", NoMedia>>
    /\ UNCHANGED <<args, probe, db, disk_db, fs, media, retry, done, runs>>
    /\ UNCHANGED driveVars
    /\ UNCHANGED dataVars

\* C14: the query built by get_remote_medias carries the start-date bound
\* whenever a start date is supplied and the end-date bound whenever an end
\* date is supplied, also when both are supplied.
C14_QueryCarriesDateWindow ==
    query_params # NoQuery =>
        /\ args.start_date # NoDate =>
               \E k \in 1..Len(query_params.q) :
                   query_params.q[k] = AFTER_QUERY(args.start_date)
        /\ args.end_date # NoDate =>
               \E k \in 1..Len(query_params.q) :
                   query_params.q[k] = BEFORE_QUERY(args.end_date)

(***************************************************************************)
(* LocalData.set_scan_dates and get_scan_dates.  A date is a day; None is  *)
(* NoDate; a column holds the date as text, NULL being the empty text.     *)
(***************************************************************************)
NULL == ""

ScanDates == 1..MaxScanDate

\* Utils.date_to_string
date_to_string(date) == ToString(date)

\* Utils.string_to_date
string_to_date(string) ==
    CHOOSE date \in ScanDates : ToString(date) = string

\* the Globals row of a new store
NoScanDates == [LastIndexDrive |-> NULL, LastIndexPicasa |-> NULL]

\* set_scan_dates writing both columns whatever was passed
set_scan_dates_WriteBoth(picasa_last_date, drive_last_date) ==
    /\ con = "open"
    /\ globals' =
           [LastIndexDrive |->
                IF drive_last_date # NoDate
                THEN date_to_string(drive_last_date) ELSE NULL,
            LastIndexPicasa |->
                IF picasa_last_date # NoDate
                THEN date_to_string(picasa_last_date) ELSE NULL]
    /\ supplied' =
           [drive |-> IF drive_last_date # NoDate
                      THEN drive_last_date ELSE supplied.drive,
            picasa |-> IF picasa_last_date # NoDate
                       THEN picasa_last_date ELSE supplied.picasa]
    /\ res' = <<"set_scan_dates", <<picasa_last_date, drive_last_date>>, 0>>
    /\ UNCHANGED <<store, previous, con, drive_folders>>
    /\ UNCHANGED <<syncVars, driveVars>>

set_scan_dates(picasa_last_date, drive_last_date) ==
    /\ con = "open"
    /\ globals' =
           [LastIndexDrive |->
                IF drive_last_date # NoDate
                THEN date_to_string(drive_last_date)
                ELSE globals.LastIndexDrive,
            LastIndexPicasa |->
                IF picasa_last_date # NoDate
                THEN date_to_string(picasa_last_date)
                ELSE globals.LastIndexPicasa]
    /\ supplied' =
           [drive |-> IF drive_last_date # NoDate
                      THEN drive_last_date ELSE supplied.drive,
            picasa |-> IF picasa_last_date # NoDate
                       THEN picasa_last_date ELSE supplied.picasa]
    /\ res' = <<"set_scan_dates", <<picasa_last_date, drive_last_date>>, 0>>
    /\ UNCHANGED <<store, previous, con, drive_folders>>
    /\ UNCHANGED <<syncVars, driveVars>>

get_scan_dates ==
    /\ con = "open"
    /\ LET d == globals.LastIndexDrive
           p == globals.LastIndexPicasa
           drive_last_date == IF d # NULL THEN string_to_date(d) ELSE NoDate
           picasa_last_date == IF p # NULL THEN string_to_date(p) ELSE NoDate
       IN  res' = <<"get_scan_dates", <<>>,
                    <<drive_last_date, picasa_last_date>>>>
    /\ UNCHANGED <<store, previous, con, tableVars>>
    /\ UNCHANGED <<syncVars, driveVars>>

FolderIds == {"r", "x", "y"}

FolderNames == {"A"}

FolderPaths == {"/A", "/A-renamed"}

\* INSERT OR REPLACE with FolderId as the unique key: the row of the same
\* FolderId is deleted and the new row is added
InsertOrReplace(rows, row) ==
    Append(SelectSeq(rows, LAMBDA r : r.FolderId # row.FolderId), row)

put_drive_folder(drive_id, parent_id, date) ==
    /\ con = "open"
    /\ drive_folders' =
           InsertOrReplace(drive_folders,
                           [FolderId |-> drive_id, ParentId |-> parent_id,
                            FolderName |-> date, Path |-> NULL])
    /\ res' = <<"put_drive_folder", <<drive_id, parent_id, date>>, <<>>>>
    /\ UNCHANGED <<store, previous, con, globals, supplied>>
    /\ UNCHANGED <<syncVars, driveVars>>

\* the call together with the iteration of the generator it returns
update_drive_folder_path(folder_path, parent_id) ==
    /\ con = "open"
    /\ drive_folders' =
           [k \in 1..Len(drive_folders) |->
               IF drive_folders[k].ParentId = parent_id
               THEN [drive_folders[k] EXCEPT !.Path = folder_path]
               ELSE drive_folders[k]]
    /\ LET results == SelectSeq(drive_folders,
                                LAMBDA r : r.ParentId = parent_id)
       IN  res' = <<"update_drive_folder_path", <<folder_path, parent_id>>,
                    [k \in 1..Len(results) |->
                        <<results[k].FolderId, results[k].FolderName>>]>>
    /\ UNCHANGED <<store, previous, con, globals, supplied>>
    /\ UNCHANGED <<syncVars, driveVars>>

\* the Path get_drive_folder_path returns from the rows; None is NULL
drive_folder_path(rows, folder_id) ==
    LET result == SelectSeq(rows, LAMBDA r : r.FolderId = folder_id)
    IN  IF result # <<>> THEN result[1].Path ELSE NULL

get_drive_folder_path(folder_id) ==
    /\ con = "open"
    /\ res' = <<"get_drive_folder_path", <<folder_id>>,
                drive_folder_path(drive_folders, folder_id)>>
    /\ UNCHANGED <<store, previous, con, tableVars>>
    /\ UNCHANGED <<syncVars, driveVars>>

\* C16: update_drive_folder_path(path, parent_id) writes path for the folder
\* identified by parent_id, so that get_drive_folder_path(parent_id) returns
\* path afterwards, and returns exactly the folders whose ParentId is
\* parent_id, each once.
C16_PathWrittenForParent ==
    [][(/\ res'[1] = "update_drive_folder_path"
        /\ \E k \in 1..Len(drive_folders) :
              drive_folders[k].FolderId = res'[2][2])
       => /\ drive_folder_path(drive_folders', res'[2][2]) = res'[2][1]
          /\ \A k \in 1..Len(drive_folders) :
                drive_folders[k].ParentId = res'[2][2] =>
                    Cardinality({j \in 1..Len(res'[3]) :
                        res'[3][j][1] = drive_folders[k].FolderId}) = 1
          /\ \A j \in 1..Len(res'[3]) :
                \E k \in 1..Len(drive_folders) :
                    /\ drive_folders[k].FolderId = res'[3][j][1]
                    /\ drive_folders[k].ParentId = res'[2][2]]_vars

(***************************************************************************)
(* The probes on any index and any files found at start.                   *)
(***************************************************************************)
\* the file names of title n up to duplicate number MaxName
Names == {join(path, <<"n", k>>) : k \in 0..MaxName}

NoName == <<>>

\* the index holding the forward record c[i] of each id i with a name and
\* the reverse entry r[f] of each name f with an id
ProbeIndex(c, r) ==
    [k \in {IdKey(i) : i \in {j \in Ids : c[j] # NoName}}
           \cup {f \in Names : r[f] # ""} |->
        IF k \in Names
        THEN [id |-> r[k]]
        ELSE LET i == CHOOSE j \in Ids : IdKey(j) = k
             IN  [filename |-> c[i], description |-> "d", checksum |-> i]]

Init ==
    /\ args \in [index_only : BOOLEAN]
    /\ probe \in {"is_indexed", "has_local_version"}
    /\ db = Empty
    /\ disk_db = Empty
    /\ fs = Empty
    /\ media = NoMedia
    /\ pc = "idle"
    /\ retry = 0
    /\ done = FALSE
    /\ ret = <<"none", FALSE>>
    /\ runs = 1
    /\ store = NoStore
    /\ previous = NoStore
    /\ con = "closed"
    /\ res = <<"none", <<>>, 0>>
    /\ globals = NoScanDates
    /\ supplied = [drive |-> NoDate, picasa |-> NoDate]
    /\ drive_folders = <<>>
    /\ query_params = NoQuery
    /\ listing = <<>>

Next ==
    \/ \E i \in Ids : \E d \in Descriptions(i) : NextMedia(i, d)
    \/ is_indexed
    \/ has_local_version
    \/ DownloadEnter
    \/ OpenTemp
    \/ OpenRaises
    \/ NextChunk
    \/ ChunkRaises
    \/ Rename
    \/ LoopExhausted
    \/ WriteIndex
    \/ store_data
    \/ KillAndRestart

\* GooglePhotosSync: the main loop, the probes, download_media, kills
Spec == Init /\ [][Next]_vars

\* LocalData is constructed on a root folder that holds no store, or a store
\* left by this or another release of the tool
DataInit ==
    /\ args = [index_only |-> FALSE]
    /\ probe = "is_indexed"
    /\ db = Empty
    /\ disk_db = Empty
    /\ fs = Empty
    /\ media = NoMedia
    /\ pc = "idle"
    /\ retry = 0
    /\ done = FALSE
    /\ ret = <<"none", FALSE>>
    /\ runs = 1
    /\ store \in {NoStore} \cup
                 [exists : {TRUE}, Version : Versions,
                  SyncFiles : {<<>>, <<OldRow>>}]
    /\ previous = NoStore
    /\ con = "closed"
    /\ res = <<"none", <<>>, 0>>
    /\ globals = NoScanDates
    /\ supplied = [drive |-> NoDate, picasa |-> NoDate]
    /\ drive_folders = <<>>
    /\ query_params = NoQuery
    /\ listing = <<>>

DataNext ==
    \/ \E flush_index \in BOOLEAN : LocalDataInit(flush_index)
    \/ Exit
    \/ \E row \in SyncRow : put_file(row)
    \/ \E file_id \in RemoteIds, p \in Paths, name \in FileNames :
           file_duplicate_no(file_id, p, name)

\* LocalData: opening the store, the resolver, put_file with any row
SpecData == DataInit /\ [][DataNext]_vars

ResolveNext ==
    \/ \E flush_index \in BOOLEAN : LocalDataInit(flush_index)
    \/ Exit
    \/ \E file_id \in RemoteIds, p \in Paths, name \in FileNames :
           file_duplicate_no(file_id, p, name)
    \/ PutResolved

\* LocalData driven by a caller that inserts only what it has just resolved
SpecResolve == DataInit /\ [][ResolveNext]_vars

\* a LocalData freshly constructed on an empty root folder
SearchInit ==
    /\ args = [index_only |-> FALSE]
    /\ probe = "is_indexed"
    /\ db = Empty
    /\ disk_db = Empty
    /\ fs = Empty
    /\ media = NoMedia
    /\ pc = "idle"
    /\ retry = 0
    /\ done = FALSE
    /\ ret = <<"none", FALSE>>
    /\ runs = 1
    /\ store = clean_db
    /\ previous = NoStore
    /\ con = "open"
    /\ res = <<"none", <<>>, 0>>
    /\ globals = NoScanDates
    /\ supplied = [drive |-> NoDate, picasa |-> NoDate]
    /\ drive_folders = <<>>
    /\ query_params = NoQuery
    /\ listing = <<>>

SearchNext ==
    \/ \E row \in SearchRow : put_file(row)
    \/ \E drive_id \in {"%", "a"}, media_type \in {"%", "0"},
          start_date \in {NoDate} \cup Dates, end_date \in {NoDate} \cup Dates :
           get_files_by_search(drive_id, media_type, start_date, end_date)

\* LocalData: put_file of dated records and get_files_by_search
SpecSearch == SearchInit /\ [][SearchNext]_vars

\* a run of the process with its date window and video flag, before the
\* first listing
QueryInit ==
    /\ args \in [index_only : {FALSE}, include_video : BOOLEAN,
                 start_date : {NoDate} \cup Dates,
                 end_date : {NoDate} \cup Dates]
    /\ probe = "is_indexed"
    /\ db = Empty
    /\ disk_db = Empty
    /\ fs = Empty
    /\ media = NoMedia
    /\ pc = "idle"
    /\ retry = 0
    /\ done = FALSE
    /\ ret = <<"none", FALSE>>
    /\ runs = 1
    /\ store = NoStore
    /\ previous = NoStore
    /\ con = "closed"
    /\ res = <<"none", <<>>, 0>>
    /\ globals = NoScanDates
    /\ supplied = [drive |-> NoDate, picasa |-> NoDate]
    /\ drive_folders = <<>>
    /\ query_params = NoQuery
    /\ listing = <<>>

QueryNext ==
    \/ \E folder_id \in {"f", "g"} : get_remote_medias(folder_id)
    \/ NextDriveFile
    \/ EndOfListing

\* GooglePhotosSync: the remote listing
SpecQuery == QueryInit /\ [][QueryNext]_vars

\* a LocalData freshly constructed on an empty root folder
ScanInit ==
    /\ args = [index_only |-> FALSE]
    /\ probe = "is_indexed"
    /\ db = Empty
    /\ disk_db = Empty
    /\ fs = Empty
    /\ media = NoMedia
    /\ pc = "idle"
    /\ retry = 0
    /\ done = FALSE
    /\ ret = <<"none", FALSE>>
    /\ runs = 1
    /\ store = clean_db
    /\ previous = NoStore
    /\ con = "open"
    /\ res = <<"none", <<>>, 0>>
    /\ globals = NoScanDates
    /\ supplied = [drive |-> NoDate, picasa |-> NoDate]
    /\ drive_folders = <<>>
    /\ query_params = NoQuery
    /\ listing = <<>>

ScanNext ==
    \/ \E picasa_last_date \in {NoDate} \cup ScanDates,
          drive_last_date \in {NoDate} \cup ScanDates :
           set_scan_dates(picasa_last_date, drive_last_date)
    \/ get_scan_dates

\* LocalData: the scan dates of the Globals row
SpecScan == ScanInit /\ [][ScanNext]_vars

\* a LocalData freshly constructed on an empty root folder
FoldersInit ==
    /\ args = [index_only |-> FALSE]
    /\ probe = "is_indexed"
    /\ db = Empty
    /\ disk_db = Empty
    /\ fs = Empty
    /\ media = NoMedia
    /\ pc = "idle"
    /\ retry = 0
    /\ done = FALSE
    /\ ret = <<"none", FALSE>>
    /\ runs = 1
    /\ store = clean_db
    /\ previous = NoStore
    /\ con = "open"
    /\ res = <<"none", <<>>, 0>>
    /\ globals = NoScanDates
    /\ supplied = [drive |-> NoDate, picasa |-> NoDate]
    /\ drive_folders = <<>>
    /\ query_params = NoQuery
    /\ listing = <<>>

FoldersNext ==
    \/ \E drive_id \in FolderIds, parent_id \in FolderIds \ {"y"},
          date \in FolderNames :
           put_drive_folder(drive_id, parent_id, date)
    \/ \E folder_path \in FolderPaths, parent_id \in FolderIds :
           update_drive_folder_path(folder_path, parent_id)
    \/ \E folder_id \in FolderIds : get_drive_folder_path(folder_id)

\* LocalData: the DriveFolders table
SpecFolders == FoldersInit /\ [][FoldersNext]_vars

\* GooglePhotosSync constructed on a folder holding any files and any
\* pickledb file
ProbeInit ==
    /\ args = [index_only |-> FALSE]
    /\ probe \in {"is_indexed", "has_local_version"}
    /\ \E c \in [Ids -> Names \cup {NoName}], r \in [Names -> Ids \cup {""}] :
           db = ProbeIndex(c, r)
    /\ disk_db = db
    /\ \E files \in SUBSET Names :
           fs = [f \in files |-> [k \in 1..ChunksTotal |-> "a"]]
    /\ media = NoMedia
    /\ pc = "idle"
    /\ retry = 0
    /\ done = FALSE
    /\ ret = <<"none", FALSE>>
    /\ runs = 1
    /\ store = NoStore
    /\ previous = NoStore
    /\ con = "closed"
    /\ res = <<"none", <<>>, 0>>
    /\ globals = NoScanDates
    /\ supplied = [drive |-> NoDate, picasa |-> NoDate]
    /\ drive_folders = <<>>
    /\ query_params = NoQuery
    /\ listing = <<>>

ProbeNext ==
    \/ \E i \in Ids : \E d \in Descriptions(i) : NextMedia(i, d)
    \/ is_indexed
    \/ has_local_version

\* GooglePhotosSync: the probes; a probe that was called runs on
SpecProbe ==
    /\ ProbeInit
    /\ [][ProbeNext]_vars
    /\ WF_vars(is_indexed)
    /\ WF_vars(has_local_version)
====
